---- MODULE Spec2Model ----
(***************************************************************************)
(* Model of app.py: one POST /review request, from body validation through *)
(* the GitHub collector, the prompt builder and the Mistral client to the  *)
(* HTTP response.                                                          *)
(*                                                                         *)
(* Strings that the program only measures, slices and concatenates are     *)
(* kept as run lists: a text is a sequence of segments [kind, n], n        *)
(* characters of one kind.  Kinds are "text" (characters html.escape       *)
(* leaves alone), "quote" (apostrophes, which html.escape expands) and the *)
(* two truncation markers, which stay recognisable while they are whole.   *)
(* Exception messages and response details are token sequences, so that    *)
(* the substring test of review() can be evaluated.                        *)
(***************************************************************************)
EXTENDS Integers, Sequences, FiniteSets, TLC

(***************************************************************************)
(* Bounds of the explored inputs.                                          *)
(***************************************************************************)
SmallTree == 2
StemLen == 4
TinyLen == 22
BigOver == 300
QuoteCount == 3
DescShort == 24

(***************************************************************************)
(* Program constants.                                                      *)
(***************************************************************************)
max_code_length == 20000
max_files == 100
max_prompt_length == 20000
CodeMarkerLen == 44
PromptMarkerLen == 46
FileHeaderLen == 11
ManifestHeaderLen == 23
QuoteEntityLen == 6
TemplateLen1 == 126
TemplateLen2 == 102
TemplateLen3 == 32
TemplateLen4 == 54
TemplateLen5 == 24

allowed_extensions ==
    {".py", ".js", ".java", ".cpp", ".c", ".cs", ".rb", ".go", ".php",
     ".html", ".css", ".swift", ".kt"}

valid_levels == {"Junior", "Middle", "Senior"}

(***************************************************************************)
(* Texts.                                                                  *)
(***************************************************************************)
Seg(kind, n) == [kind |-> kind, n |-> n]

Plain(n) == IF n > 0 THEN <<Seg("text", n)>> ELSE <<>>

Quotes(n) == IF n > 0 THEN <<Seg("quote", n)>> ELSE <<>>

CodeMarker == <<Seg("code_marker", CodeMarkerLen)>>

PromptMarker == <<Seg("prompt_marker", PromptMarkerLen)>>

RECURSIVE TextLen(_)
TextLen(t) == IF t = <<>> THEN 0 ELSE Head(t).n + TextLen(Tail(t))

Mergeable(a, b) == a.kind = b.kind /\ a.kind \in {"text", "quote"}

\* s + t
Concat(s, t) ==
    IF s = <<>> THEN t
    ELSE IF t = <<>> THEN s
    ELSE IF Mergeable(s[Len(s)], t[1])
         THEN SubSeq(s, 1, Len(s) - 1)
              \o <<Seg(t[1].kind, s[Len(s)].n + t[1].n)>>
              \o Tail(t)
         ELSE s \o t

\* a marker cut short is no longer the marker
CutKind(kind) == IF kind \in {"code_marker", "prompt_marker"} THEN "text" ELSE kind

\* t[:k]
RECURSIVE Slice(_, _)
Slice(t, k) ==
    IF t = <<>> \/ k <= 0 THEN <<>>
    ELSE IF Head(t).n <= k
         THEN Concat(<<Head(t)>>, Slice(Tail(t), k - Head(t).n))
         ELSE <<Seg(CutKind(Head(t).kind), k)>>

EndsWith(t, marker) ==
    /\ Len(t) >= Len(marker)
    /\ SubSeq(t, Len(t) - Len(marker) + 1, Len(t)) = marker

\* html.escape(s): every apostrophe becomes the six characters &#x27;
RECURSIVE html_escape(_)
html_escape(t) ==
    IF t = <<>> THEN <<>>
    ELSE Concat(IF Head(t).kind = "quote"
                THEN Plain(Head(t).n * QuoteEntityLen)
                ELSE <<Head(t)>>,
                html_escape(Tail(t)))

(***************************************************************************)
(* Exception messages and response bodies.                                 *)
(***************************************************************************)
MsgInvalidUrl == "Invalid GitHub repository URL."
MsgNotGithub == "URL must be a GitHub repository."
MsgInvalidLevel == "Invalid candidate level. Allowed values: Junior, Middle, Senior."
MsgFieldRequired == "Field required"
ValueErrorPrefix == "Value error, "

MsgInvalidDomain == <<"Invalid domain in GitHub repository URL.">>
MsgInvalidPath == <<"Invalid path in GitHub repository URL.">>
MsgAccessRepo == <<"Failed to access GitHub repository. Check the URL and access rights.">>
MsgRetrieveContent == <<"Failed to retrieve GitHub repository content.">>
MsgNoApiKey == <<"Mistral AI API key not found in environment variables.">>
HttpErrorNeedle == "HTTP error when accessing Mistral AI API"
MsgMistralHttp == <<HttpErrorNeedle, ".">>
MsgInvalidFormatPrefix == "Invalid response format from Mistral AI API: "
MsgInternal == <<"An internal server error occurred. Please try again later.">>
MsgNoChoices == <<"'Field \"choices\" is missing or has an incorrect format.'">>
MsgNoMessage == <<"'Field \"message\" is missing or has an incorrect format.'">>
MsgNoContent == <<"'Field \"content\" is missing.'">>
MsgTransport == <<"timed out">>

Exc(type, msg) == [type |-> type, msg |-> msg]

NoResponse == [status |-> 0, key |-> "", value |-> <<>>]

JSONResponse(status_code, key, value) ==
    [status |-> status_code, key |-> key, value |-> value]

HTTPException(status_code, detail) == JSONResponse(status_code, "detail", detail)

\* needle in str(e)
InStr(needle, msg) == \E i \in 1..Len(msg) : msg[i] = needle

(***************************************************************************)
(* Request bodies and their validation.                                    *)
(***************************************************************************)
Url(valid, netloc, parts) == [valid |-> valid, netloc |-> netloc, parts |-> parts]

UrlInvalid == Url(FALSE, "", <<"invalid_url">>)
UrlGitlab == Url(TRUE, "gitlab.com", <<"testuser", "testrepo">>)
UrlGithubWww == Url(TRUE, "www.github.com", <<"testuser", "testrepo">>)
UrlGithubRepo == Url(TRUE, "github.com", <<"testuser", "testrepo">>)
UrlGithubUser == Url(TRUE, "github.com", <<"testuser">>)

Present(v) == [present |-> TRUE, value |-> v]

Absent(v) == [present |-> FALSE, value |-> v]

DescLong == max_prompt_length + 1

DescInputs == {Absent(<<>>), Present(Plain(DescShort)), Present(Plain(DescLong))}

UrlInputs ==
    {Absent(UrlInvalid)}
    \cup {Present(u) : u \in {UrlInvalid, UrlGitlab, UrlGithubWww,
                              UrlGithubRepo, UrlGithubUser}}

LevelInputs == {Absent(""), Present("Middle"), Present("Intern")}

RequestBodies ==
    [assignment_description : DescInputs,
     github_url_repo : UrlInputs,
     candidate_level : LevelInputs]

FieldError(loc, msg) == <<[loc |-> loc, msg |-> msg]>>

validate_github_url(v) ==
    IF ~v.valid THEN FieldError("github_url_repo", ValueErrorPrefix \o MsgInvalidUrl)
    ELSE IF v.netloc # "github.com"
         THEN FieldError("github_url_repo", ValueErrorPrefix \o MsgNotGithub)
         ELSE <<>>

validate_candidate_level(v) ==
    IF v \notin valid_levels
    THEN FieldError("candidate_level", ValueErrorPrefix \o MsgInvalidLevel)
    ELSE <<>>

\* a required field: missing, or else what its validator reports
Required(loc, field, validated) ==
    IF ~field.present THEN FieldError(loc, MsgFieldRequired) ELSE validated

\* the errors pydantic collects for the body, in field order
ReviewRequest(body) ==
    Required("assignment_description", body.assignment_description, <<>>)
    \o Required("github_url_repo", body.github_url_repo,
                validate_github_url(body.github_url_repo.value))
    \o Required("candidate_level", body.candidate_level,
                validate_candidate_level(body.candidate_level.value))

\* only the first error is reported
validation_exception_handler_first(errors) ==
    JSONResponse(422, "errors", <<errors[1].msg>>)

validation_exception_handler(errors) ==
    JSONResponse(422, "errors", [i \in 1..Len(errors) |-> errors[i].msg])

(***************************************************************************)
(* review(): the mapping of exceptions to responses.                       *)
(***************************************************************************)
\* a ValueError answered with one fixed detail instead of str(ve)
review_except_fixed_detail(e) ==
    IF e.type = "ValueError" THEN HTTPException(400, MsgAccessRepo)
    ELSE IF e.type = "HTTPStatusError" THEN HTTPException(400, MsgAccessRepo)
    ELSE IF InStr(HttpErrorNeedle, e.msg) THEN HTTPException(500, MsgMistralHttp)
    ELSE HTTPException(500, MsgInternal)

review_except(e) ==
    IF e.type = "ValueError" THEN HTTPException(400, e.msg)
    ELSE IF e.type = "HTTPStatusError" THEN HTTPException(400, MsgAccessRepo)
    ELSE IF InStr(HttpErrorNeedle, e.msg) THEN HTTPException(500, MsgMistralHttp)
    ELSE HTTPException(500, MsgInternal)

(***************************************************************************)
(* Repository trees.                                                       *)
(***************************************************************************)
Path(id, ext) == [id |-> id, ext |-> ext]

Item(id, type, ext) == [path |-> Path(id, ext), type |-> type]

ExtLen(ext) == Len(ext)

PathLen(path) == StemLen + ExtLen(path.ext)

MixedItem(i) ==
    IF i % 3 = 1 THEN Item(i, "tree", "")
    ELSE IF i % 3 = 2 THEN Item(i, "blob", ".md")
    ELSE Item(i, "blob", ".py")

MkTree(n, shape) ==
    [i \in 1..n |-> IF shape = "code" THEN Item(i, "blob", ".py") ELSE MixedItem(i)]

TreeLens == (0..SmallTree) \cup {max_files, max_files + 1}

TreeFamily == {MkTree(n, shape) : n \in TreeLens, shape \in {"code", "mixed"}}

path_allowed(path) == \E ext \in allowed_extensions : path.ext = ext

FileHeader(path) == Plain(FileHeaderLen + PathLen(path) + 1)

\* '\nAll repository files:\n' followed by one line per listed path
RECURSIVE ManifestLen(_)
ManifestLen(paths) ==
    IF paths = <<>> THEN 0 ELSE PathLen(Head(paths)) + 1 + ManifestLen(Tail(paths))

ManifestText(paths) == Plain(ManifestHeaderLen + ManifestLen(paths))

(***************************************************************************)
(* Responses of the two upstream services.                                 *)
(***************************************************************************)
NoReply == [kind |-> "none", status |-> 0]

Raised == [kind |-> "raise", status |-> 0]

Http(status) == [kind |-> "http", status |-> status]

GithubOutcomes == {Raised, Http(200), Http(404)}

NoBlob == [kind |-> "none", status |-> 0, encoding |-> "", decode |-> "", file_content |-> <<>>]

Blob(kind, status, encoding, decode, file_content) ==
    [kind |-> kind, status |-> status, encoding |-> encoding,
     decode |-> decode, file_content |-> file_content]

\* decoded bodies offered for a file: a short one, one that fills the buffer
\* exactly, and ones that overfill it by one and by BigOver characters and
\* start with apostrophes
FileContents(room) ==
    {Plain(TinyLen)}
    \cup (IF room >= 0 THEN {Plain(room)} ELSE {})
    \cup {Concat(Quotes(QuoteCount), Plain(room + over - QuoteCount)) :
            over \in {o \in {1, BigOver} : room + o >= QuoteCount}}

BlobOutcomes(room) ==
    {Blob("raise", 0, "", "", <<>>),
     Blob("http", 404, "", "", <<>>),
     Blob("http", 200, "utf-8", "", <<>>),
     Blob("http", 200, "base64", "binascii.Error", <<>>),
     Blob("http", 200, "base64", "UnicodeDecodeError", <<>>)}
    \cup {Blob("http", 200, "base64", "ok", c) : c \in FileContents(room)}

Envelope(choices, message, content) ==
    [choices |-> choices, message |-> message, content |-> content]

ReviewText == "This is a test review from Mistral AI."

Post(kind, status, json) == [kind |-> kind, status |-> status, json |-> json]

NoPost == Post("none", 0, Envelope("", "", ""))

PostOutcomes ==
    {Post("raise", 0, Envelope("", "", "")),
     Post("http", 500, Envelope("", "", "")),
     Post("http", 404, Envelope("", "", "")),
     Post("http", 302, Envelope("", "", "")),
     Post("http", 200, Envelope("missing", "", "")),
     Post("http", 200, Envelope("list", "missing", "")),
     Post("http", 200, Envelope("list", "dict", "")),
     Post("http", 200, Envelope("list", "dict", ReviewText)),
     Post("http", 201, Envelope("list", "dict", ReviewText))}

(***************************************************************************)
(* State.                                                                  *)
(***************************************************************************)
VARIABLES
    pc,             \* position of the request in review()
    request,        \* the JSON body received
    response,       \* the HTTP response sent, NoResponse until then
    pending,        \* the outbound call being awaited
    issued,         \* kinds of outbound calls issued so far
    repo_response,  \* the repository metadata response
    tree_response,  \* the tree response
    tree,           \* tree_data['tree']
    idx,            \* position of the for loop in tree
    file_count,
    code,
    file_list,      \* paths appended to file_list, in order
    blob_response,
    prompt,
    post_response   \* the completion response

vars ==
    <<pc, request, response, pending, issued, repo_response, tree_response, tree,
      idx, file_count, code, file_list, blob_response, prompt, post_response>>

Init ==
    /\ pc = "request"
    /\ request \in RequestBodies
    /\ response = NoResponse
    /\ pending = "none"
    /\ issued = {}
    /\ repo_response = NoReply
    /\ tree_response = NoReply
    /\ tree = <<>>
    /\ idx = 1
    /\ file_count = 0
    /\ code = <<>>
    /\ file_list = <<>>
    /\ blob_response = NoBlob
    /\ prompt = <<>>
    /\ post_response = NoPost

collector_vars == <<tree, idx, file_count, code, file_list, blob_response>>

\* an exception leaves review() through its except clauses
Raise(e) ==
    /\ response' = review_except(e)
    /\ pc' = "done"
    /\ pending' = "none"

(***************************************************************************)
(* Body validation by FastAPI before review() is entered.                  *)
(***************************************************************************)
Validate ==
    /\ pc = "request"
    /\ LET errors == ReviewRequest(request) IN
         IF errors # <<>>
         THEN /\ response' = validation_exception_handler(errors)
              /\ pc' = "done"
         ELSE /\ pc' = "collect"
              /\ UNCHANGED response
    /\ UNCHANGED <<request, pending, issued, repo_response, tree_response, prompt, post_response>>
    /\ UNCHANGED collector_vars

(***************************************************************************)
(* collect_code_from_github_repo                                           *)
(***************************************************************************)
\* only server errors are taken for a failed metadata fetch
repo_ok_servererr(status_code) == status_code < 500

repo_ok(status_code) == status_code = 200

tree_ok(status_code) == status_code = 200

path_ok(path_parts) == Len(path_parts) >= 2

\* up to the metadata GET
CollectStart ==
    /\ pc = "collect"
    /\ LET parsed_url == request.github_url_repo.value IN
         IF parsed_url.netloc # "github.com"
         THEN Raise(Exc("ValueError", MsgInvalidDomain)) /\ UNCHANGED issued
         ELSE IF ~path_ok(parsed_url.parts)
         THEN Raise(Exc("ValueError", MsgInvalidPath)) /\ UNCHANGED issued
         ELSE /\ pending' = "repo"
              /\ issued' = issued \cup {"repo"}
              /\ pc' = "await_repo"
              /\ UNCHANGED response
    /\ UNCHANGED <<request, repo_response, tree_response, prompt, post_response>>
    /\ UNCHANGED collector_vars

\* the metadata response, up to the tree GET
RepoResponse ==
    /\ pc = "await_repo"
    /\ \E r \in GithubOutcomes :
         /\ repo_response' = r
         /\ IF r.kind = "raise"
            THEN Raise(Exc("Exception", MsgTransport)) /\ UNCHANGED issued
            ELSE IF ~repo_ok(r.status)
            THEN Raise(Exc("ValueError", MsgAccessRepo)) /\ UNCHANGED issued
            ELSE /\ pending' = "tree"
                 /\ issued' = issued \cup {"tree"}
                 /\ pc' = "await_tree"
                 /\ UNCHANGED response
    /\ UNCHANGED <<request, tree_response, prompt, post_response>>
    /\ UNCHANGED collector_vars

\* the tree response, up to the for loop
TreeResponse ==
    /\ pc = "await_tree"
    /\ \E r \in GithubOutcomes :
         /\ tree_response' = r
         /\ IF r.kind = "raise"
            THEN Raise(Exc("Exception", MsgTransport)) /\ UNCHANGED collector_vars
            ELSE IF ~tree_ok(r.status)
            THEN Raise(Exc("ValueError", MsgRetrieveContent)) /\ UNCHANGED collector_vars
            ELSE /\ \E t \in TreeFamily : tree' = t
                 /\ code' = <<>>
                 /\ file_list' = <<>>
                 /\ file_count' = 0
                 /\ idx' = 1
                 /\ pending' = "none"
                 /\ pc' = "loop"
                 /\ UNCHANGED <<response, blob_response>>
    /\ UNCHANGED <<request, issued, repo_response, prompt, post_response>>

\* the file cap tested with > instead of >=
cap_reached_late(count, text) == count > max_files \/ TextLen(text) >= max_code_length

cap_reached(count, text) == count >= max_files \/ TextLen(text) >= max_code_length

\* one pass through the head of the for loop, up to the blob GET
LoopHead ==
    /\ pc = "loop"
    /\ IF idx > Len(tree) \/ cap_reached(file_count, code)
       THEN /\ pc' = "after_loop"
            /\ UNCHANGED <<file_list, idx, pending, issued>>
       ELSE LET item == tree[idx] IN
            /\ file_list' = Append(file_list, item.path)
            /\ IF item.type = "blob" /\ path_allowed(item.path)
               THEN /\ pending' = "blob"
                    /\ issued' = issued \cup {"blob"}
                    /\ pc' = "await_blob"
                    /\ UNCHANGED idx
               ELSE /\ idx' = idx + 1
                    /\ pc' = "loop"
                    /\ UNCHANGED <<pending, issued>>
    /\ UNCHANGED <<request, response, repo_response, tree_response, tree,
                   file_count, code, blob_response, prompt, post_response>>

BlobResponse ==
    /\ pc = "await_blob"
    /\ LET room == max_code_length - TextLen(code)
                   - TextLen(FileHeader(tree[idx].path)) IN
         \E b \in BlobOutcomes(room) : blob_response' = b
    /\ pending' = "none"
    /\ pc' = "blob"
    /\ UNCHANGED <<request, response, issued, repo_response, tree_response, tree,
                   idx, file_count, code, file_list, prompt, post_response>>

\* the decoding result is not looked at
blob_included_undecoded(b) ==
    /\ b.kind = "http"
    /\ b.status = 200
    /\ b.encoding = "base64"

blob_included(b) ==
    /\ b.kind = "http"
    /\ b.status = 200
    /\ b.encoding = "base64"
    /\ b.decode = "ok"

truncate_code(text) ==
    IF TextLen(text) > max_code_length
    THEN Concat(Slice(text, max_code_length), CodeMarker)
    ELSE text

\* the rest of the loop body once the blob response is in
HandleBlob ==
    /\ pc = "blob"
    /\ IF blob_included(blob_response)
       THEN LET appended == Concat(code, Concat(FileHeader(tree[idx].path),
                                                blob_response.file_content)) IN
            /\ code' = truncate_code(appended)
            /\ file_count' = file_count + 1
            /\ IF TextLen(appended) > max_code_length
               THEN pc' = "after_loop" /\ UNCHANGED idx
               ELSE pc' = "loop" /\ idx' = idx + 1
       ELSE /\ pc' = "loop"
            /\ idx' = idx + 1
            /\ UNCHANGED <<code, file_count>>
    /\ blob_response' = NoBlob
    /\ UNCHANGED <<request, response, pending, issued, repo_response,
                   tree_response, tree, file_list, prompt, post_response>>

\* code += file_list; return code
AppendFileList ==
    /\ pc = "after_loop"
    /\ code' = Concat(code, ManifestText(file_list))
    /\ pc' = "build_prompt"
    /\ UNCHANGED <<request, response, pending, issued, repo_response,
                   tree_response, tree, idx, file_count, file_list,
                   blob_response, prompt, post_response>>

(***************************************************************************)
(* review(): the prompt.                                                   *)
(***************************************************************************)
truncate_prompt(text) ==
    IF TextLen(text) > max_prompt_length
    THEN Concat(Slice(text, max_prompt_length), PromptMarker)
    ELSE text

Template(candidate_level, assignment_description, safe_project_code) ==
    Concat(Plain(TemplateLen1),
    Concat(Plain(Len(candidate_level)),
    Concat(Plain(TemplateLen2),
    Concat(assignment_description,
    Concat(Plain(TemplateLen3),
    Concat(safe_project_code,
    Concat(Plain(TemplateLen4),
    Concat(Plain(Len(candidate_level)),
           Plain(TemplateLen5)))))))))

BuildPrompt ==
    /\ pc = "build_prompt"
    /\ LET safe_project_code == html_escape(code) IN
         prompt' = truncate_prompt(Template(request.candidate_level.value,
                                            request.assignment_description.value,
                                            safe_project_code))
    /\ pc' = "get_mistral_review"
    /\ UNCHANGED <<request, response, pending, issued, repo_response,
                   tree_response, post_response>>
    /\ UNCHANGED collector_vars

(***************************************************************************)
(* get_mistral_review                                                      *)
(***************************************************************************)
\* up to the POST; the key is read from the environment at this point
GetMistralReview ==
    /\ pc = "get_mistral_review"
    /\ \E api_key \in BOOLEAN :
         IF ~api_key
         THEN Raise(Exc("Exception", MsgNoApiKey)) /\ UNCHANGED issued
         ELSE /\ pending' = "post"
              /\ issued' = issued \cup {"post"}
              /\ pc' = "await_post"
              /\ UNCHANGED response
    /\ UNCHANGED <<request, repo_response, tree_response, prompt, post_response>>
    /\ UNCHANGED collector_vars

\* only server errors raise
is_success_below500(status_code) == status_code < 500

\* response.raise_for_status() returns only on a 2xx status
is_success(status_code) == status_code >= 200 /\ status_code <= 299

Returned(text) == [ok |-> TRUE, text |-> text, exc |-> Exc("", <<>>)]

Thrown(e) == [ok |-> FALSE, text |-> "", exc |-> e]

\* the inner try: the KeyError of a malformed envelope, re-raised
parse_envelope(json) ==
    IF json.choices # "list"
    THEN Thrown(Exc("Exception", <<MsgInvalidFormatPrefix>> \o MsgNoChoices))
    ELSE IF json.message # "dict"
    THEN Thrown(Exc("Exception", <<MsgInvalidFormatPrefix>> \o MsgNoMessage))
    ELSE IF json.content = ""
    THEN Thrown(Exc("Exception", <<MsgInvalidFormatPrefix>> \o MsgNoContent))
    ELSE Returned(json.content)

\* the outer try of get_mistral_review applied to the POST's outcome
post_result(r) ==
    IF r.kind = "raise"
    THEN Thrown(Exc("Exception", <<MsgInvalidFormatPrefix>> \o MsgTransport))
    ELSE IF ~is_success(r.status)
    THEN Thrown(Exc("Exception", MsgMistralHttp))
    ELSE LET parsed == parse_envelope(r.json) IN
         IF parsed.ok THEN parsed
         ELSE Thrown(Exc("Exception", <<MsgInvalidFormatPrefix>> \o parsed.exc.msg))

PostResponse ==
    /\ pc = "await_post"
    /\ \E r \in PostOutcomes :
         /\ post_response' = r
         /\ LET result == post_result(r) IN
              IF result.ok
              THEN /\ response' = JSONResponse(200, "review", <<result.text>>)
                   /\ pc' = "done"
                   /\ pending' = "none"
              ELSE Raise(result.exc)
    /\ UNCHANGED <<request, issued, repo_response, tree_response, prompt>>
    /\ UNCHANGED collector_vars

Next ==
    \/ Validate
    \/ CollectStart
    \/ RepoResponse
    \/ TreeResponse
    \/ LoopHead
    \/ BlobResponse
    \/ HandleBlob
    \/ AppendFileList
    \/ BuildPrompt
    \/ GetMistralReview
    \/ PostResponse

Spec == Init /\ [][Next]_vars

TypeOK ==
    /\ pc \in {"request", "collect", "await_repo", "await_tree", "loop",
               "await_blob", "blob", "after_loop", "build_prompt",
               "get_mistral_review", "await_post", "done"}
    /\ pending \in {"none", "repo", "tree", "blob", "post"}
    /\ file_count \in 0..max_files
    /\ idx \in 1..(Len(tree) + 1)
(***************************************************************************)
(* Properties.                                                             *)
(***************************************************************************)
InCollectorLoop == pc \in {"loop", "await_blob", "blob", "after_loop"}

Collected == pc \in {"build_prompt", "get_mistral_review", "await_post", "done"}


\* C1: while the collector builds it, and up to the moment the manifest is
\* appended, the code buffer is never longer than 20000 characters.
C1_CorpusWithinCap == InCollectorLoop => TextLen(code) <= 20000

\* C2: the prompt handed to get_mistral_review is never longer than 20000
\* characters.
C2_PromptWithinCap == TextLen(prompt) <= 20000

\* C3: when the loop is left with tree entries still unvisited or cut short
\* (a cap stopped it), the code buffer ends with the truncation marker.
C3_CapStopEndsWithMarker ==
    (pc = "after_loop" /\ idx <= Len(tree)) => EndsWith(code, CodeMarker)

\* C4: the manifest appended to the collector's output lists the path of
\* every tree entry, in tree order.
C4_ManifestListsEveryPath ==
    (Collected /\ tree_response.status = 200)
        => file_list = [i \in 1..Len(tree) |-> tree[i].path]

\* C5: a non-200 metadata response ends the request with 400 and the
\* access-rights detail, and no tree, blob or completion call is issued.
C5_RepoFailureStopsRequest ==
    (repo_response.kind = "http" /\ repo_response.status # 200)
        => /\ pc = "done"
           /\ response = [status |-> 400, key |-> "detail", value |->
                <<"Failed to access GitHub repository. Check the URL and access rights.">>]
           /\ issued \cap {"tree", "blob", "post"} = {}

C5_Witness == repo_response.status = 404 /\ pc = "done" /\ issued = {"repo"}

\* C6: a completion response with a status outside 200..299 ends the request
\* with 500 and the detail 'HTTP error when accessing Mistral AI API.', never
\* with a review body.
C6_MistralHttpError ==
    (post_response.kind = "http" /\ post_response.status \notin 200..299)
        => /\ pc = "done"
           /\ response = [status |-> 500, key |-> "detail", value |->
                <<"HTTP error when accessing Mistral AI API", ".">>]
           /\ response.key # "review"

C6_Witness == post_response.status = 500 /\ tree_response.status = 200 /\ response.status = 500

PathFailed ==
    /\ pc = "done"
    /\ issued = {}
    /\ request.github_url_repo.present
    /\ Len(request.github_url_repo.value.parts) < 2
    /\ response.status # 422

RepoFailed == repo_response.kind = "http" /\ repo_response.status # 200

TreeFailed == tree_response.kind = "http" /\ tree_response.status # 200

DescViolated == ~request.assignment_description.present

UrlViolated ==
    \/ ~request.github_url_repo.present
    \/ ~request.github_url_repo.value.valid
    \/ request.github_url_repo.value.netloc # "github.com"

LevelViolated ==
    \/ ~request.candidate_level.present
    \/ request.candidate_level.value \notin {"Junior", "Middle", "Senior"}

ViolatedFields ==
    {f \in {"assignment_description", "github_url_repo", "candidate_level"} :
        \/ f = "assignment_description" /\ DescViolated
        \/ f = "github_url_repo" /\ UrlViolated
        \/ f = "candidate_level" /\ LevelViolated}

Holds(errors, msg) == \E i \in 1..Len(errors) : errors[i] = msg

Missing ==
    {f \in {"assignment_description", "github_url_repo", "candidate_level"} :
        ~request[f].present}

\* C8: a body with violated fields is answered with 422 and an errors array
\* holding one message per violated field.
C8_EveryViolationReported ==
    (pc # "request" /\ ViolatedFields # {})
        => /\ response.status = 422
           /\ response.key = "errors"
           /\ Len(response.value) = Cardinality(ViolatedFields)
           /\ Cardinality({i \in 1..Len(response.value) :
                             response.value[i] = "Field required"})
                = Cardinality(Missing)
           /\ (UrlViolated /\ request.github_url_repo.present)
                => \/ Holds(response.value, "Value error, Invalid GitHub repository URL.")
                   \/ Holds(response.value, "Value error, URL must be a GitHub repository.")
           /\ (LevelViolated /\ request.candidate_level.present)
                => Holds(response.value,
                     "Value error, Invalid candidate level. Allowed values: Junior, Middle, Senior.")

C8_Witness ==
    /\ pc = "done"
    /\ Cardinality(ViolatedFields) = 3
    /\ Len(response.value) = 3
    /\ request.candidate_level.present
    /\ request.github_url_repo.present

FailedBlob(b) ==
    \/ b.kind = "raise"
    \/ b.status # 200
    \/ b.encoding # "base64"
    \/ b.decode \in {"binascii.Error", "UnicodeDecodeError"}

\* C9: a failed blob leaves code and file_count alone and the loop goes on
\* with the next entry; once the tree is fetched every request gets its
\* prompt built and handed to the review client.
C9_FileFailuresSwallowed ==
    /\ [][(pc = "blob" /\ FailedBlob(blob_response))
            => /\ code' = code
               /\ file_count' = file_count
               /\ idx' = idx + 1
               /\ pc' = "loop"
               /\ file_count' < 100
               /\ TextLen(code') < 20000
               /\ response' = NoResponse]_vars
    /\ []((tree_response.status = 200 /\ pc = "done") => prompt # <<>>)

C9_Witness ==
    /\ pc = "await_post"
    /\ "blob" \in issued
    /\ file_count = 0
    /\ idx = Len(tree) + 1
    /\ Len(tree) >= 2

\* C10: file_count, the number of files appended to code, never exceeds 100,
\* and once a cap is reached no further blob GET is issued.
C10_CapsStopFetching ==
    /\ [](file_count <= 100)
    /\ [][(InCollectorLoop /\ (file_count >= 100 \/ TextLen(code) >= 20000))
            => ~(pending' = "blob" /\ pending # "blob")]_vars

C10_Witness ==
    /\ pc = "after_loop"
    /\ file_count = 100
    /\ idx <= Len(tree)
    /\ TextLen(code) < 20000
====
